---- MODULE Spec2Model ----
(***************************************************************************)
(* LUnpack (src/main.rs): unpack the files of a client out of its PK       *)
(* archives.  main builds a glob set, loads the manifest and the pack      *)
(* index, groups the accepted manifest entries by archive (a BTreeMap      *)
(* keyed by archive path) and runs Task::un_pack_file once per archive.    *)
(*                                                                         *)
(* Strings whose content the code inspects (glob lines, manifest paths,    *)
(* archive keys) are sequences of character codes.                         *)
(***************************************************************************)
EXTENDS Integers, Sequences, FiniteSets, TLC

\* ------------------------------------------------------------------ bounds

\* Number of manifest entries of the run (a prefix of ManifestAll).
NumPaths == 2
\* Longest glob file, in lines, of the runs over every pack index (Spec).
ShortLines == 1
\* Longest glob file, in lines, of the runs over one pack index (SpecGlob).
MaxLines == 2
\* Most I/O failures the environment injects in one run.
MaxFaults == 2

\* --------------------------------------------------------------- characters

HASH == 35
BACKSLASH == 92
SLASH == 47
STAR == 42
LBRACKET == 91
RBRACKET == 93

\* "client\res\pack\"
PackPrefix == <<99, 108, 105, 101, 110, 116, 92, 114, 101, 115, 92, 112, 97, 99, 107, 92>>

\* The copy buffer of un_pack_file, in bytes.
BufferSize == 16384

\* Option<PathBuf> of the glob file, read: None, or Some with the file's lines.
None == [some |-> FALSE, lines |-> <<>>]

Some(lines) == [some |-> TRUE, lines |-> lines]

\* ------------------------------------------------------------ pure helpers

RECURSIVE StartsWith(_, _)
StartsWith(s, p) ==
    IF p = <<>> THEN TRUE
    ELSE IF s = <<>> THEN FALSE
    ELSE Head(s) = Head(p) /\ StartsWith(Tail(s), Tail(p))

\* str::strip_prefix(..).unwrap_or(..)
ShortKey(pk_key) ==
    IF StartsWith(pk_key, PackPrefix)
    THEN SubSeq(pk_key, Len(PackPrefix) + 1, Len(pk_key))
    ELSE pk_key

\* key.replace('\\', "/")
PackName(key) == [k \in 1..Len(key) |-> IF key[k] = BACKSLASH THEN SLASH ELSE key[k]]

\* Ord of String: bytewise lexicographic, the order of the BTreeMap's keys.
RECURSIVE StrLess(_, _)
StrLess(a, b) ==
    IF b = <<>> THEN FALSE
    ELSE IF a = <<>> THEN TRUE
    ELSE IF Head(a) # Head(b) THEN Head(a) < Head(b)
    ELSE StrLess(Tail(a), Tail(b))

\* A map that hands its keys out in descending order.
RECURSIVE KeysDescending(_)
KeysDescending(ks) ==
    IF ks = {} THEN <<>>
    ELSE LET greatest == CHOOSE k \in ks : \A o \in ks \ {k} : StrLess(o, k)
         IN  <<greatest>> \o KeysDescending(ks \ {greatest})

\* BTreeMap::into_iter: the keys in ascending order.
RECURSIVE KeysInOrder(_)
KeysInOrder(ks) ==
    IF ks = {} THEN <<>>
    ELSE LET least == CHOOSE k \in ks : \A o \in ks \ {k} : StrLess(k, o)
         IN  <<least>> \o KeysInOrder(ks \ {least})

\* Glob::new: the line compiles unless a character class is left open.
RECURSIVE ClassOpen(_, _)
ClassOpen(line, open) ==
    IF line = <<>> THEN open
    ELSE IF Head(line) = LBRACKET /\ ~open THEN ClassOpen(Tail(line), TRUE)
    ELSE IF Head(line) = RBRACKET /\ open THEN ClassOpen(Tail(line), FALSE)
    ELSE ClassOpen(Tail(line), open)

GlobNew(line) == ~ClassOpen(line, FALSE)

\* One compiled glob against a path: literal characters and '*' wildcards.
RECURSIVE GlobMatch(_, _)
GlobMatch(pat, s) ==
    IF pat = <<>> THEN s = <<>>
    ELSE IF Head(pat) = STAR
         THEN GlobMatch(Tail(pat), s) \/ (s # <<>> /\ GlobMatch(pat, Tail(s)))
    ELSE s # <<>> /\ Head(s) = Head(pat) /\ GlobMatch(Tail(pat), Tail(s))

\* GlobSet::is_match: at least one glob of the set matches.
is_match(globset, file) == \E g \in globset : GlobMatch(g, file)

\* calculate_crc: a checksum of the path's bytes (a stand-in for the CRC of
\* assembly_pack: a fixed function of the bytes, not of their order in the manifest).
RECURSIVE CrcFold(_, _)
CrcFold(acc, bytes) ==
    IF bytes = <<>> THEN acc
    ELSE CrcFold((acc * 3 + Head(bytes)) % 17, Tail(bytes))

calculate_crc(bytes) == CrcFold(0, bytes)

\* ------------------------------------------------------------------ inputs

\* "a/x", "b/y", "c", "d/d/w": manifest.files is a BTreeMap, iterated in path order.
ManifestAll == << <<97, 47, 120>>, <<98, 47, 121>>, <<99>>, <<100, 47, 100, 47, 119>> >>

Manifest == SubSeq(ManifestAll, 1, NumPaths)

\* The archives of the pack index, by ordinal (pack_file + 1):
\* "client\res\pack\b" and "a".
Archives == << [path |-> PackPrefix \o <<98>>], [path |-> <<97>>] >>

\* The lines a glob file is made of: "", "#a", "[", "a*", "**".
GlobLines == { <<>>, <<35, 97>>, <<91>>, <<97, 42>>, <<42, 42>> }

RECURSIVE SeqsUpTo(_, _)
SeqsUpTo(S, n) ==
    IF n = 0 THEN {<<>>}
    ELSE LET shorter == SeqsUpTo(S, n - 1)
         IN  shorter \cup {Append(s, x) : s \in {t \in shorter : Len(t) = n - 1}, x \in S}

ManifestCrcs == {calculate_crc(Manifest[k]) : k \in 1..Len(Manifest)}

\* pack_index.files: checksum -> pack_file, for some of the checksums.
IndexFiles == UNION {[D -> 0..(Len(Archives) - 1)] : D \in SUBSET ManifestCrcs}

\* The index that holds every manifest path, the k-th in archive (k - 1) mod 2.
FullIndex ==
    [c \in ManifestCrcs |->
        ((CHOOSE k \in 1..Len(Manifest) : calculate_crc(Manifest[k]) = c) - 1) % Len(Archives)]

\* The lines of the short glob files: "[" and "a*".
ShortGlobLines == { <<91>>, <<97, 42>> }

\* The glob option: absent, or a file of up to n of the lines.
GlobFiles(lines, n) == {None} \cup {Some(l) : l \in SeqsUpTo(lines, n)}

\* Checksums some archive holds though no manifest path has them.
ForeignCrcs == {9}

\* PKEntryData, as far as un_pack_file reads it; the flag and the payload's
\* length are fixed per checksum.
Entry(crc) == [crc |-> crc, is_compressed |-> crc % 2, size |-> ((crc * 2) % 5) * 6000]

RECURSIVE SortedEntries(_)
SortedEntries(crcs) ==
    IF crcs = {} THEN <<>>
    ELSE LET least == CHOOSE c \in crcs : \A o \in crcs : c <= o
         IN  <<Entry(least)>> \o SortedEntries(crcs \ {least})

\* What get_entry_list can return for a batch: an entry directory, ascending by
\* checksum, holding some of the requested checksums and some others.
Directories(files) ==
    {SortedEntries(D) : D \in SUBSET ({files[k].crc : k \in 1..Len(files)} \cup ForeignCrcs)}

\* <[_]>::binary_search_by_key over lo..hi (1-based, hi exclusive): the index
\* found, or 0.
RECURSIVE BinarySearch(_, _, _, _)
BinarySearch(entries, crc, lo, hi) ==
    IF lo >= hi THEN 0
    ELSE LET mid == lo + (hi - lo) \div 2
         IN  IF entries[mid].crc = crc THEN mid
             ELSE IF entries[mid].crc < crc THEN BinarySearch(entries, crc, mid + 1, hi)
             ELSE BinarySearch(entries, crc, lo, mid)

\* A search that never looks at the last entry.
binary_search_short(entries, crc) == BinarySearch(entries, crc, 1, Len(entries))

binary_search_by_key(entries, crc) == BinarySearch(entries, crc, 1, Len(entries) + 1)

\* Path::join(output, file_path)
OutFile(file_path) == [root |-> "output", rel |-> file_path]

\* The directories create_dir_all(out_file.parent()) makes sure of, relative to
\* the output root (<<>> is the root itself).
Ancestors(rel) == {SubSeq(rel, 1, k - 1) : k \in {j \in 1..Len(rel) : rel[j] = SLASH}} \cup {<<>>}

\* The lengths stream.read hands out until it returns 0.
RECURSIVE Chunks(_)
Chunks(size) ==
    IF size = 0 THEN <<>>
    ELSE IF size <= BufferSize THEN <<size>>
    ELSE <<BufferSize>> \o Chunks(size - BufferSize)

\* What the I/O of one found request can do: nothing wrong, or a failure of
\* get_file_data, create_dir_all, File::create, the at-th read, the at-th
\* write_all, or flush.
IoOutcomes(entry) ==
    LET n == Len(Chunks(entry.size))
    IN  {[kind |-> k, at |-> 0] : k \in {"ok", "stream", "mkdir", "create", "flush"}}
        \cup {[kind |-> "read", at |-> k] : k \in 1..(n + 1)}
        \cup {[kind |-> "write", at |-> k] : k \in 1..n}

\* ------------------------------------------------------------------- state

VARIABLES
    pc,          \* where main (and the un_pack_file it awaits) stands
    dry_run,     \* opts.dry_run
    globfile,    \* opts.glob: None, or the lines of the file
    index_files, \* pack_index.files
    num,         \* lines of the glob file consumed (enumerate's counter)
    builder,     \* the globs added to the GlobSetBuilder; the globset once built
    mi,          \* manifest entries consumed by the planning loop
    lookups,     \* paths whose checksum was computed and looked up
    tasks,       \* the BTreeMap archive path -> Vec of (crc, file)
    i,           \* batches consumed by the driver loop
    hist,        \* one record per un_pack_file call, the last one the current
    entries,     \* un_pack_file's entry list
    fi,          \* requests of the current task consumed
    out,         \* everything emitted, in order: log records and stdout lines
    fs,          \* files under the output root: relative path -> length
    dirs,        \* directories made under the output root
    faults       \* I/O failures injected so far

vars == <<pc, dry_run, globfile, index_files, num, builder, mi, lookups, tasks, i,
          hist, entries, fi, out, fs, dirs, faults>>

LogRec(level, msg, root, path, key, n, task) ==
    [chan |-> "log", level |-> level, msg |-> msg, root |-> root, path |-> path,
     key |-> key, num |-> n, task |-> task]

StdoutLine(out_file, task) ==
    [chan |-> "stdout", level |-> "", msg |-> "", root |-> out_file.root,
     path |-> out_file.rel, key |-> <<>>, num |-> 0 - 1, task |-> task]

InitWith(globfiles, indexes) ==
    /\ pc = "start"
    /\ dry_run \in BOOLEAN
    /\ globfile \in globfiles
    /\ index_files \in indexes
    /\ num = 0
    /\ builder = {}
    /\ mi = 0
    /\ lookups = <<>>
    /\ tasks = <<>>
    /\ i = 0
    /\ hist = <<>>
    /\ entries = <<>>
    /\ fi = 0
    /\ out = <<>>
    /\ fs = <<>>
    /\ dirs = {}
    /\ faults = 0

\* ------------------------------------------------------------ main: filter

\* No -g option: the set holds the one glob "**".
DefaultGlob ==
    /\ pc = "start"
    /\ globfile = None
    /\ builder' = {<<STAR, STAR>>}
    /\ pc' = "load"
    /\ UNCHANGED <<dry_run, globfile, index_files, num, mi, lookups, tasks, i, hist,
                   entries, fi, out, fs, dirs, faults>>

\* read_to_string(&globfile)?
ReadGlobFile ==
    /\ pc = "start"
    /\ globfile # None
    /\ pc' = "glob"
    /\ UNCHANGED <<dry_run, globfile, index_files, num, builder, mi, lookups, tasks, i,
                   hist, entries, fi, out, fs, dirs, faults>>

ReadGlobFileFails ==
    /\ pc = "start"
    /\ globfile # None
    /\ faults < MaxFaults
    /\ faults' = faults + 1
    /\ pc' = "fatal"
    /\ UNCHANGED <<dry_run, globfile, index_files, num, builder, mi, lookups, tasks, i,
                   hist, entries, fi, out, fs, dirs>>

\* One turn of `for (num, line) in globs.lines().enumerate()`.
GlobLine ==
    /\ pc = "glob"
    /\ num < Len(globfile.lines)
    /\ LET line == globfile.lines[num + 1]
       IN  IF line # <<>> /\ Head(line) # HASH
           THEN IF GlobNew(line)
                THEN /\ builder' = builder \cup {line}
                     /\ out' = out
                ELSE /\ builder' = builder
                     /\ out' = Append(out, LogRec("error", "Invalid glob", "", line, <<>>, num, <<>>))
           ELSE UNCHANGED <<builder, out>>
    /\ num' = num + 1
    /\ UNCHANGED <<pc, dry_run, globfile, index_files, mi, lookups, tasks, i, hist,
                   entries, fi, fs, dirs, faults>>

\* builder.build()
GlobBuild ==
    /\ pc = "glob"
    /\ num = Len(globfile.lines)
    /\ pc' = "load"
    /\ UNCHANGED <<dry_run, globfile, index_files, num, builder, mi, lookups, tasks, i,
                   hist, entries, fi, out, fs, dirs, faults>>

\* ------------------------------------------------------------ main: inputs

\* The manifest and the pack index load.
LoadInputs ==
    /\ pc = "load"
    /\ pc' = "plan"
    /\ UNCHANGED <<dry_run, globfile, index_files, num, builder, mi, lookups, tasks, i,
                   hist, entries, fi, out, fs, dirs, faults>>

\* trunk.txt cannot be opened (FileNotFound), or the manifest or the index does
\* not parse (unwrap): the run ends before any extraction.
LoadInputsFails ==
    /\ pc = "load"
    /\ faults < MaxFaults
    /\ faults' = faults + 1
    /\ pc' = "fatal"
    /\ UNCHANGED <<dry_run, globfile, index_files, num, builder, mi, lookups, tasks, i,
                   hist, entries, fi, out, fs, dirs>>

\* ----------------------------------------------------------- main: planner

\* A push that puts the request at the head of the batch.
PushFront(t, key, req) ==
    IF key \in DOMAIN t
    THEN [t EXCEPT ![key] = <<req>> \o @]
    ELSE [k \in DOMAIN t \cup {key} |-> IF k = key THEN <<req>> ELSE t[k]]

\* tasks.entry(key).or_insert_with(Vec::new).push(req)
Push(t, key, req) ==
    IF key \in DOMAIN t
    THEN [t EXCEPT ![key] = Append(@, req)]
    ELSE [k \in DOMAIN t \cup {key} |-> IF k = key THEN <<req>> ELSE t[k]]

\* One turn of `for (file, data) in manifest.files`.
PlanEntry ==
    /\ pc = "plan"
    /\ mi < Len(Manifest)
    /\ LET file == Manifest[mi + 1]
           crc == calculate_crc(file)
       IN  IF ~is_match(builder, file)
           THEN UNCHANGED <<lookups, tasks>>
           ELSE /\ lookups' = Append(lookups, file)
                /\ IF crc \in DOMAIN index_files
                   THEN LET archive == Archives[index_files[crc] + 1]
                        IN  tasks' = Push(tasks, archive.path, [crc |-> crc, file |-> file])
                   ELSE tasks' = tasks
    /\ mi' = mi + 1
    /\ UNCHANGED <<pc, dry_run, globfile, index_files, num, builder, i, hist, entries,
                   fi, out, fs, dirs, faults>>

\* let total = tasks.len();
PlanDone ==
    /\ pc = "plan"
    /\ mi = Len(Manifest)
    /\ pc' = "drive"
    /\ UNCHANGED <<dry_run, globfile, index_files, num, builder, mi, lookups, tasks, i,
                   hist, entries, fi, out, fs, dirs, faults>>

\* ------------------------------------------------------------ main: driver

\* tasks.into_iter(): the batches in key order.
Order == KeysInOrder(DOMAIN tasks)

total == Cardinality(DOMAIN tasks)

\* The Task main builds for the batch at position i (0-based), and what is
\* known of its un_pack_file call so far.
NewTask(key, opened) ==
    [key |-> key, pk_file |-> PackName(key), i |-> i + 1, total |-> total,
     files |-> tasks[key], opened |-> opened, magic |-> "", listed |-> FALSE,
     dir |-> <<>>, reqs |-> <<>>, fail |-> "",
     result |-> IF opened THEN "running" ELSE "ok"]

cur == hist[Len(hist)]

SetCur(field, value) == [hist EXCEPT ![Len(hist)][field] = value]

\* un_pack_file is called and File::open succeeds.
OpenTask ==
    /\ pc = "drive"
    /\ i < total
    /\ hist' = Append(hist, NewTask(Order[i + 1], TRUE))
    /\ pc' = "magic"
    /\ UNCHANGED <<dry_run, globfile, index_files, num, builder, mi, lookups, tasks, i,
                   entries, fi, out, fs, dirs, faults>>

\* An open failure that is propagated with `?` out of un_pack_file and main.
OpenTaskFailsFatal ==
    /\ pc = "drive"
    /\ i < total
    /\ faults < MaxFaults
    /\ faults' = faults + 1
    /\ hist' = Append(hist, [NewTask(Order[i + 1], FALSE) EXCEPT !.result = "err"])
    /\ pc' = "fatal"
    /\ UNCHANGED <<dry_run, globfile, index_files, num, builder, mi, lookups, tasks, i,
                   entries, fi, out, fs, dirs>>

\* un_pack_file is called and File::open fails: a warning, and Ok(()).
OpenTaskFails ==
    /\ pc = "drive"
    /\ i < total
    /\ faults < MaxFaults
    /\ faults' = faults + 1
    /\ LET key == Order[i + 1]
       IN  /\ hist' = Append(hist, NewTask(key, FALSE))
           /\ out' = Append(out, LogRec("warn", "Failed to open", "", <<>>, ShortKey(key), 0 - 1, key))
    /\ i' = i + 1
    /\ UNCHANGED <<pc, dry_run, globfile, index_files, num, builder, mi, lookups, tasks,
                   entries, fi, fs, dirs>>

\* A driver that returns the batch's error with `?` instead of logging it.
TaskErrStops(newOut, reqs, fail) ==
    /\ hist' = [hist EXCEPT ![Len(hist)].reqs = reqs, ![Len(hist)].fail = fail,
                            ![Len(hist)].result = "err"]
    /\ out' = newOut
    /\ i' = i
    /\ pc' = "fatal"

\* un_pack_file returns Err(e) at the `?` named by fail: main logs it with the
\* key and goes on.
TaskErr(newOut, reqs, fail) ==
    /\ hist' = [hist EXCEPT ![Len(hist)].reqs = reqs, ![Len(hist)].fail = fail,
                            ![Len(hist)].result = "err"]
    /\ out' = Append(newOut, LogRec("error", "failed to unpack", "", <<>>, cur.key, 0 - 1, cur.key))
    /\ i' = i + 1
    /\ pc' = "drive"

\* A magic check whose failure is returned with `?`.
CheckMagicStrict ==
    /\ pc = "magic"
    /\ \E ok \in BOOLEAN :
         IF ok
         THEN /\ hist' = SetCur("magic", "ok")
              /\ pc' = "header"
              /\ UNCHANGED <<out, i>>
         ELSE /\ hist' = [hist EXCEPT ![Len(hist)].magic = "bad", ![Len(hist)].fail = "magic",
                                      ![Len(hist)].result = "err"]
              /\ out' = Append(out, LogRec("error", "failed to unpack", "", <<>>, cur.key,
                                           0 - 1, cur.key))
              /\ i' = i + 1
              /\ pc' = "drive"
    /\ UNCHANGED <<dry_run, globfile, index_files, num, builder, mi, lookups, tasks,
                   entries, fi, fs, dirs, faults>>

\* pk.check_magic(): a mismatch is logged, nothing else.
CheckMagic ==
    /\ pc = "magic"
    /\ \E ok \in BOOLEAN :
         /\ hist' = SetCur("magic", IF ok THEN "ok" ELSE "bad")
         /\ out' = IF ok THEN out
                   ELSE Append(out, LogRec("error", "Failed to check PK magic", "", <<>>,
                                           ShortKey(cur.key), 0 - 1, cur.key))
    /\ pc' = "header"
    /\ UNCHANGED <<dry_run, globfile, index_files, num, builder, mi, lookups, tasks, i,
                   entries, fi, fs, dirs, faults>>

\* pk.get_header()?
GetHeader ==
    /\ pc = "header"
    /\ pc' = "entries"
    /\ UNCHANGED <<dry_run, globfile, index_files, num, builder, mi, lookups, tasks, i,
                   hist, entries, fi, out, fs, dirs, faults>>

GetHeaderFails ==
    /\ pc = "header"
    /\ faults < MaxFaults
    /\ faults' = faults + 1
    /\ TaskErr(out, cur.reqs, "header")
    /\ UNCHANGED <<dry_run, globfile, index_files, num, builder, mi, lookups, tasks,
                   entries, fi, fs, dirs>>

\* pk.get_entry_list(trailer.file_list_base_addr)?
GetEntryList ==
    /\ pc = "entries"
    /\ entries' \in Directories(cur.files)
    /\ hist' = [hist EXCEPT ![Len(hist)].listed = TRUE, ![Len(hist)].dir = entries']
    /\ fi' = 0
    /\ pc' = "files"
    /\ UNCHANGED <<dry_run, globfile, index_files, num, builder, mi, lookups, tasks, i,
                   out, fs, dirs, faults>>

GetEntryListFails ==
    /\ pc = "entries"
    /\ faults < MaxFaults
    /\ faults' = faults + 1
    /\ TaskErr(out, cur.reqs, "entries")
    /\ UNCHANGED <<dry_run, globfile, index_files, num, builder, mi, lookups, tasks,
                   entries, fi, fs, dirs>>

\* A copy loop that takes a read shorter than the buffer for the end of the
\* stream and does not write it.
RECURSIVE CopyLoopShort(_, _, _, _)
CopyLoopShort(chunks, k, len, io) ==
    IF io.kind = "read" /\ io.at = k THEN [len |-> len, err |-> TRUE]
    ELSE IF k > Len(chunks) \/ chunks[k] < BufferSize
         THEN [len |-> len, err |-> io.kind = "flush"]
    ELSE IF io.kind = "write" /\ io.at = k THEN [len |-> len, err |-> TRUE]
    ELSE CopyLoopShort(chunks, k + 1, len + chunks[k], io)

\* The copy loop from its k-th read on, `len` bytes written so far: the bytes
\* in the file at the end, and whether a `?` returned.
RECURSIVE CopyLoop(_, _, _, _)
CopyLoop(chunks, k, len, io) ==
    IF io.kind = "read" /\ io.at = k THEN [len |-> len, err |-> TRUE]
    ELSE IF k > Len(chunks)
         THEN [len |-> len, err |-> io.kind = "flush"]
    ELSE IF io.kind = "write" /\ io.at = k THEN [len |-> len, err |-> TRUE]
    ELSE CopyLoop(chunks, k + 1, len + chunks[k], io)

\* The Ok(index) arm for one request whose entry was found, with dry-run off:
\* what becomes of the directories, the files and the output, and whether a
\* `?` returned.
Extract(req, entry, io) ==
    LET out_file == OutFile(req.file)
    IN  IF io.kind = "stream"
        THEN [dirs |-> dirs, fs |-> fs, out |-> out, err |-> TRUE]
        ELSE IF io.kind = "mkdir"
        THEN [dirs |-> dirs, fs |-> fs, out |-> out, err |-> TRUE]
        ELSE IF io.kind = "create"
        THEN [dirs |-> dirs \cup Ancestors(req.file), fs |-> fs,
              out |-> Append(out, LogRec("error", "Failed to write", out_file.root,
                                         out_file.rel, <<>>, 0 - 1, cur.key)),
              err |-> FALSE]
        ELSE LET copied == CopyLoop(Chunks(entry.size), 1, 0, io)
             IN  [dirs |-> dirs \cup Ancestors(req.file),
                  fs |-> [f \in DOMAIN fs \cup {out_file.rel} |->
                            IF f = out_file.rel THEN copied.len ELSE fs[f]],
                  out |-> out, err |-> copied.err]

\* The Ok(index) arm with dry-run on: get_file_data, then the println.
DryRun(req, entry, io) ==
    IF io.kind = "stream"
    THEN [dirs |-> dirs, fs |-> fs, out |-> out, err |-> TRUE]
    ELSE [dirs |-> dirs, fs |-> fs,
          out |-> Append(out, StdoutLine(OutFile(req.file), cur.key)), err |-> FALSE]

\* The failures that can befall a found request in this mode.
Outcomes(entry) ==
    IF dry_run THEN {[kind |-> k, at |-> 0] : k \in {"ok", "stream"}}
    ELSE IoOutcomes(entry)

\* One turn of `for (crc, file_path, _size, _hash) in self.files` that finds
\* the entry.  (The debug line for a compressed entry is below the Info level
\* the logger is set to; nothing is emitted for it.)
FileFound ==
    /\ pc = "files"
    /\ fi < Len(cur.files)
    /\ LET req == cur.files[fi + 1]
           index == binary_search_by_key(entries, req.crc)
       IN  /\ index # 0
           /\ \E io \in Outcomes(entries[index]) :
                LET r == IF dry_run THEN DryRun(req, entries[index], io)
                                    ELSE Extract(req, entries[index], io)
                    reqs == Append(cur.reqs, [file |-> req.file, found |-> TRUE, io |-> io.kind])
                IN  /\ io.kind # "ok" => faults < MaxFaults
                    /\ faults' = IF io.kind = "ok" THEN faults ELSE faults + 1
                    /\ dirs' = r.dirs
                    /\ fs' = r.fs
                    /\ IF r.err
                       THEN /\ TaskErr(r.out, reqs, io.kind)
                            /\ fi' = fi
                       ELSE /\ hist' = SetCur("reqs", reqs)
                            /\ out' = r.out
                            /\ fi' = fi + 1
                            /\ UNCHANGED <<pc, i>>
    /\ UNCHANGED <<dry_run, globfile, index_files, num, builder, mi, lookups, tasks, entries>>

\* One turn of the loop that does not find the entry: a warning.
FileNotFound ==
    /\ pc = "files"
    /\ fi < Len(cur.files)
    /\ LET req == cur.files[fi + 1]
       IN  /\ binary_search_by_key(entries, req.crc) = 0
           /\ out' = Append(out, LogRec("warn", "Failed to find", "", req.file,
                                        ShortKey(cur.key), 0 - 1, cur.key))
           /\ hist' = SetCur("reqs", Append(cur.reqs, [file |-> req.file, found |-> FALSE, io |-> "none"]))
    /\ fi' = fi + 1
    /\ UNCHANGED <<pc, dry_run, globfile, index_files, num, builder, mi, lookups, tasks, i,
                   entries, fs, dirs, faults>>

\* The loop is over: the progress line, and Ok(()).
FinishTask ==
    /\ pc = "files"
    /\ fi = Len(cur.files)
    /\ out' = Append(out, LogRec("info", "progress", "", <<>>, ShortKey(cur.key), cur.i, cur.key))
    /\ hist' = SetCur("result", "ok")
    /\ i' = i + 1
    /\ pc' = "drive"
    /\ UNCHANGED <<dry_run, globfile, index_files, num, builder, mi, lookups, tasks,
                   entries, fi, fs, dirs, faults>>

\* The driver loop is over: main returns Ok(()).
MainReturns ==
    /\ pc = "drive"
    /\ i = total
    /\ pc' = "done"
    /\ UNCHANGED <<dry_run, globfile, index_files, num, builder, mi, lookups, tasks, i,
                   hist, entries, fi, out, fs, dirs, faults>>

Next ==
    \/ DefaultGlob \/ ReadGlobFile \/ ReadGlobFileFails \/ GlobLine \/ GlobBuild
    \/ LoadInputs \/ LoadInputsFails
    \/ PlanEntry \/ PlanDone
    \/ OpenTask \/ OpenTaskFails \/ CheckMagic \/ GetHeader \/ GetHeaderFails
    \/ GetEntryList \/ GetEntryListFails \/ FileFound \/ FileNotFound \/ FinishTask
    \/ MainReturns

\* Every pack index, with the short glob files.
Init == InitWith(GlobFiles(ShortGlobLines, ShortLines), IndexFiles)

Spec == Init /\ [][Next]_vars

\* Every glob file, with the one full pack index.
InitGlob == InitWith(GlobFiles(GlobLines, MaxLines), {FullIndex})

SpecGlob == InitGlob /\ [][Next]_vars

\* ------------------------------------------------------- claims: vocabulary

Planned == pc \in {"drive", "magic", "header", "entries", "files", "done"}

Range(s) == {s[k] : k \in 1..Len(s)}

\* The manifest entry is accepted by the filter and its checksum is a key of
\* the index.
Wanted(file) == is_match(builder, file) /\ calculate_crc(file) \in DOMAIN index_files

\* The archive path the index gives for a wanted manifest entry.
ArchiveOf(file) == Archives[index_files[calculate_crc(file)] + 1].path

\* Everything emitted while the batch of archive `key` was being unpacked.
OutOf(key) == SelectSeq(out, LAMBDA r : r.task = key)

\* The checksum is in no entry of the directory.
Missing(dir, crc) == \A k \in 1..Len(dir) : dir[k].crc # crc

EntryOf(dir, crc) == CHOOSE e \in Range(dir) : e.crc = crc

\* The un_pack_file call for archive `key`.
CallOf(key) == hist[CHOOSE n \in 1..Len(hist) : hist[n].key = key]

PositionIn(files, file) == CHOOSE k \in 1..Len(files) : files[k].file = file

\* The I/O outcomes after which un_pack_file returns Err.
Aborting == {"stream", "mkdir", "read", "write", "flush"}

\* main neither ended early nor is stuck.
RunGoesOn ==
    /\ pc = "fatal" => hist = <<>>
    /\ pc \notin {"done", "fatal"} => ENABLED Next
    /\ pc = "done" => Len(hist) = total /\ \A n \in 1..Len(hist) : hist[n].result # "running"

\* -------------------------------------------------------------------- C7

\* C7: once planning is over, the plan is the reference grouping: its keys are
\* the archive paths of the wanted manifest entries, each batch holds exactly
\* the wanted entries of its archive, once each and in manifest order, with
\* their checksums; no batch is empty; and a checksum was looked up for the
\* accepted entries only.
C7_PlanIsGrouping ==
    Planned =>
        /\ DOMAIN tasks = {ArchiveOf(f) : f \in {g \in Range(Manifest) : Wanted(g)}}
        /\ \A key \in DOMAIN tasks :
             /\ tasks[key] # <<>>
             /\ [k \in 1..Len(tasks[key]) |-> tasks[key][k].file]
                  = SelectSeq(Manifest, LAMBDA f : Wanted(f) /\ ArchiveOf(f) = key)
             /\ \A k \in 1..Len(tasks[key]) :
                  tasks[key][k].crc = calculate_crc(tasks[key][k].file)
        /\ lookups = SelectSeq(Manifest, LAMBDA f : is_match(builder, f))

\* A plan is built that holds one manifest entry while the filter rejects
\* another.
C7_Witness_PlannedAndFiltered ==
    /\ pc = "drive"
    /\ tasks # <<>>
    /\ \E f \in Range(Manifest) : ~is_match(builder, f)

\* -------------------------------------------------------------------- C8

\* The position in the manifest of the first request archive `key` received.
Discovery(key) == PositionIn([k \in 1..Len(Manifest) |-> [file |-> Manifest[k]]], tasks[key][1].file)

\* C8 as claimed: output of different archives comes in archive-discovery order.
C8_DiscoveryOrder ==
    \A a, b \in 1..Len(out) :
        (a < b /\ out[a].task # <<>> /\ out[b].task # <<>> /\ out[a].task # out[b].task)
            => Discovery(out[a].task) < Discovery(out[b].task)

\* C8 amended: output of different archives comes in ascending order of the
\* archive paths, the order of the plan's keys.
C8_KeyOrder ==
    \A a, b \in 1..Len(out) :
        (a < b /\ out[a].task # <<>> /\ out[b].task # <<>> /\ out[a].task # out[b].task)
            => StrLess(out[a].task, out[b].task)

\* Two archives have both emitted something by the end of the run.
C8_Witness_TwoArchives ==
    /\ pc = "done"
    /\ \E a, b \in 1..Len(out) :
         a < b /\ out[a].task # <<>> /\ out[b].task # <<>> /\ out[a].task # out[b].task

\* -------------------------------------------------------------------- C3

\* C3: a batch whose archive cannot be opened emits exactly one thing, the
\* warning with the archive's short key, leaves no file for any of its
\* requests and returns Ok; the run goes on through every batch to its end.
C3_MissingArchive ==
    /\ \A n \in 1..Len(hist) :
         ~hist[n].opened =>
            /\ hist[n].result = "ok"
            /\ OutOf(hist[n].key)
                 = <<LogRec("warn", "Failed to open", "", <<>>, ShortKey(hist[n].key),
                            0 - 1, hist[n].key)>>
            /\ \A k \in 1..Len(hist[n].files) : hist[n].files[k].file \notin DOMAIN fs
    /\ RunGoesOn

\* The run ends with one archive that could not be opened and a file written
\* from another.
C3_Witness_OneMissingOneWritten ==
    /\ pc = "done"
    /\ \E n, m \in 1..Len(hist) :
         /\ ~hist[n].opened
         /\ hist[m].opened
         /\ \E k \in 1..Len(hist[m].files) : hist[m].files[k].file \in DOMAIN fs

\* -------------------------------------------------------------------- C4

\* C4: the calls of un_pack_file are the batches of the plan in plan order,
\* once each, none started before the one before it returned; each call that
\* returned Err left one error naming its archive key; the run goes on to its
\* end whatever failed.
C4_EveryBatchInOrder ==
    /\ Planned =>
         /\ Len(hist) <= total
         /\ \A n \in 1..Len(hist) : hist[n].key = Order[n]
         /\ \A n \in 1..(Len(hist) - 1) : hist[n].result # "running"
         /\ pc = "drive" => Len(hist) = i /\ \A n \in 1..Len(hist) : hist[n].result # "running"
         /\ \A n \in 1..Len(hist) :
              LET errors == SelectSeq(OutOf(hist[n].key), LAMBDA r : r.msg = "failed to unpack")
              IN  IF hist[n].result = "err"
                  THEN errors = <<LogRec("error", "failed to unpack", "", <<>>, hist[n].key,
                                         0 - 1, hist[n].key)>>
                  ELSE errors = <<>>
    /\ RunGoesOn

\* The run ends after two batches that both returned Err, for different reasons.
C4_Witness_TwoFailures ==
    /\ pc = "done"
    /\ Len(hist) = 2
    /\ hist[1].result = "err"
    /\ hist[2].result = "err"
    /\ hist[1].fail # hist[2].fail

\* -------------------------------------------------------------------- C6

NotFoundWarning(req) ==
    LogRec("warn", "Failed to find", "", req.file, ShortKey(cur.key), 0 - 1, cur.key)

\* C6: a turn of the request loop whose checksum is in no entry of the
\* directory emits the one warning naming the request's path and the short
\* key and changes nothing else but the loop's position, so the later
\* requests meet the state they would have met without it; a turn whose
\* checksum is in the directory emits no such warning.
C6_MissingEntry ==
    [][(pc = "files" /\ fi < Len(cur.files)) =>
         LET req == cur.files[fi + 1]
         IN  IF Missing(entries, req.crc)
             THEN /\ out' = Append(out, NotFoundWarning(req))
                  /\ fi' = fi + 1
                  /\ pc' = "files"
                  /\ cur'.files = cur.files
                  /\ cur'.result = "running"
                  /\ UNCHANGED <<fs, dirs, entries, i, tasks, faults, dry_run>>
             ELSE out' # Append(out, NotFoundWarning(req))]_vars

\* With dry-run off, a batch whose first request was missing has written the
\* file of a later one.
C6_Witness_MissingThenWritten ==
    /\ ~dry_run
    /\ \E n \in 1..Len(hist) :
         \E k, l \in 1..Len(hist[n].reqs) :
            /\ k < l
            /\ ~hist[n].reqs[k].found
            /\ hist[n].reqs[l].found
            /\ hist[n].reqs[l].io = "ok"
            /\ hist[n].reqs[l].file \in DOMAIN fs

\* -------------------------------------------------------------------- C9

MagicError(key) ==
    LogRec("error", "Failed to check PK magic", "", <<>>, ShortKey(key), 0 - 1, key)

\* C9: the magic check, passed or failed, leads to the header read and changes
\* nothing but the log, where a failure adds the one error; and a batch whose
\* magic check failed ends as the header, the directory and the I/O of its
\* requests decide: Err only after one of those failed, else Ok with every
\* request handled, every found and copied file at its payload's length, and
\* the progress line.
C9_BadMagicGoesOn ==
    /\ [][pc = "magic" =>
            /\ pc' = "header"
            /\ out' = IF cur'.magic = "bad" THEN Append(out, MagicError(cur.key)) ELSE out
            /\ UNCHANGED <<fs, dirs, entries, fi, i, tasks, faults, dry_run>>]_vars
    /\ [](\A n \in 1..Len(hist) :
            hist[n].magic = "bad" =>
               /\ SelectSeq(OutOf(hist[n].key), LAMBDA r : r.msg = "Failed to check PK magic")
                    = <<MagicError(hist[n].key)>>
               /\ hist[n].result = "err" => hist[n].fail \in {"header", "entries"} \cup Aborting
               /\ hist[n].result = "ok" =>
                    /\ hist[n].listed
                    /\ Len(hist[n].reqs) = Len(hist[n].files)
                    /\ \A k \in 1..Len(hist[n].files) :
                         LET req == hist[n].files[k]
                         IN  /\ hist[n].reqs[k].found = ~Missing(hist[n].dir, req.crc)
                             /\ (~dry_run /\ hist[n].reqs[k].io = "ok") =>
                                   /\ req.file \in DOMAIN fs
                                   /\ fs[req.file] = EntryOf(hist[n].dir, req.crc).size
                    /\ \E a \in 1..Len(out) :
                         out[a] = LogRec("info", "progress", "", <<>>, ShortKey(hist[n].key),
                                         n, hist[n].key))

\* A batch whose magic check failed has returned Ok after writing a file.
C9_Witness_BadMagicWritten ==
    \E n \in 1..Len(hist) :
        /\ hist[n].magic = "bad"
        /\ hist[n].result = "ok"
        /\ \E k \in 1..Len(hist[n].reqs) :
             hist[n].reqs[k].io = "ok" /\ hist[n].reqs[k].file \in DOMAIN fs

\* -------------------------------------------------------------------- C1

C2_DryRunPrintsEveryFound ==
    dry_run =>
        /\ fs = <<>>
        /\ dirs = {}
        /\ \A n \in 1..Len(hist) :
             (hist[n].listed /\ hist[n].result # "running") =>
                LET found == SelectSeq(hist[n].files,
                                       LAMBDA req : ~Missing(hist[n].dir, req.crc))
                IN  SelectSeq(OutOf(hist[n].key), LAMBDA r : r.chan = "stdout")
                      = [k \in 1..Len(found) |-> StdoutLine(OutFile(found[k].file), hist[n].key)]

\* -------------------------------------------------------------------- C5

\* C5: with dry-run off, once the batch has returned, every request whose
\* destination could not be made (its directories or the file itself) has an
\* error naming the destination in the log, and the request after it, if any,
\* was handled.
C5_UnwritableNeverAborts ==
    ~dry_run =>
        \A n \in 1..Len(hist) :
            hist[n].result # "running" =>
                \A k \in 1..Len(hist[n].reqs) :
                    hist[n].reqs[k].io \in {"mkdir", "create"} =>
                        /\ \E a \in 1..Len(out) :
                             out[a] = LogRec("error", "Failed to write", "output",
                                             hist[n].reqs[k].file, <<>>, 0 - 1, hist[n].key)
                        /\ k < Len(hist[n].files) => Len(hist[n].reqs) > k

\* -------------------------------------------------------------------- C10

\* The line is neither blank nor a comment and does not compile.
InvalidLine(line) == line # <<>> /\ Head(line) # HASH /\ ~GlobNew(line)

ValidLine(line) == line # <<>> /\ Head(line) # HASH /\ GlobNew(line)

\* C10: once the glob file is consumed, the run has not ended; the log holds,
\* for each invalid line and nothing else, one warning carrying the line and
\* its line number in the file (the first line is line 1), in file order; and
\* a path is accepted exactly when a valid line matches it.
C10_InvalidGlobLines ==
    (globfile.some /\ pc = "load") =>
        LET lines == globfile.lines
            invalid == SelectSeq([n \in 1..Len(lines) |-> n], LAMBDA n : InvalidLine(lines[n]))
        IN  /\ out = [k \in 1..Len(invalid) |->
                        LogRec("warn", "Invalid glob", "", lines[invalid[k]], <<>>,
                               invalid[k], <<>>)]
            /\ \A file \in Range(ManifestAll) :
                 is_match(builder, file)
                    <=> \E n \in 1..Len(lines) : ValidLine(lines[n]) /\ GlobMatch(lines[n], file)

====
